---- MODULE Spec2Model ----
(***************************************************************************)
(* A model of the STIMPL evaluator (src/stimpl/runtime.py): the persistent *)
(* binding chain (State / EmptyState) and the recursive function evaluate. *)
(*                                                                         *)
(* Representation of Python values.  Every runtime value is a sequence of  *)
(* integers, always carried together with its type tag:                    *)
(*   None          <<>>                                                    *)
(*   int n         <<n>>                                                   *)
(*   bool          <<0>> (False), <<1>> (True); bool is a subclass of int  *)
(*   str           the sequence of its code points                         *)
(*   float         <<s, n, d>>: sign bit s, magnitude n/d in lowest terms  *)
(*                 (sign-magnitude, so that -0.0 is a value of its own).   *)
(*                 Arithmetic on these is exact; it agrees with IEEE-754   *)
(*                 doubles as long as d stays a power of two and the       *)
(*                 magnitudes stay small, which FloatsExact checks.        *)
(* A type (Unit(), Integer(), ...) is its class name; the name "None"      *)
(* stands for Python's None where the code stores None in a type variable. *)
(***************************************************************************)
EXTENDS Integers, Sequences, FiniteSets

\* program: the expression handed to the evaluator; chain: the State object
\* built so far through State.set_value; pc: where the caller is; result:
\* what the call yielded; stdout: the characters written to standard output
VARIABLES program, chain, pc, result, stdout

vars == <<program, chain, pc, result, stdout>>

(***************************************************************************)
(* Bounds of the model.                                                    *)
(***************************************************************************)
\* iterations of one while loop that the model follows before giving up
MaxIter == 5
\* longest chain an evaluation may be started in
MaxChain == 2

(***************************************************************************)
(* Text: strings are sequences of code points.                             *)
(***************************************************************************)
NEWLINE == 10
TextUnit == <<85, 110, 105, 116>>
TextTrue == <<84, 114, 117, 101>>
TextFalse == <<70, 97, 108, 115, 101>>
MINUS == 45
DOT == 46
DIGIT0 == 48

None == <<>>

RECURSIVE NatDigits(_)
\* decimal digits of a natural number, most significant first
NatDigits(n) ==
    IF n < 10 THEN <<DIGIT0 + n>>
    ELSE NatDigits(n \div 10) \o <<DIGIT0 + (n % 10)>>

\* str(n) for an int
IntText(n) == IF n < 0 THEN <<MINUS>> \o NatDigits(-n) ELSE NatDigits(n)

RECURSIVE FracDigits(_, _)
\* decimal digits of the fraction r/d, 0 <= r < d, d a power of two
FracDigits(r, d) ==
    IF r = 0 THEN <<>>
    ELSE <<DIGIT0 + ((r * 10) \div d)>> \o FracDigits((r * 10) % d, d)

\* repr(x) of a float in the range printed in positional notation
FloatText(v) ==
    LET ip == v[2] \div v[3]
        fr == v[2] % v[3]
    IN (IF v[1] = 1 THEN <<MINUS>> ELSE <<>>)
       \o NatDigits(ip) \o <<DOT>>
       \o (IF fr = 0 THEN <<DIGIT0>> ELSE FracDigits(fr, v[3]))

(***************************************************************************)
(* Floats.                                                                 *)
(***************************************************************************)
RECURSIVE GCD(_, _)
GCD(a, b) == IF b = 0 THEN a ELSE GCD(b, a % b)

FNorm(s, n, d) == IF n = 0 THEN <<s, 0, 1>> ELSE <<s, n \div GCD(n, d), d \div GCD(n, d)>>
FSigned(v) == IF v[1] = 1 THEN -v[2] ELSE v[2]
FAbs(k) == IF k < 0 THEN -k ELSE k
FNeg(v) == <<1 - v[1], v[2], v[3]>>
FAdd(a, b) ==
    LET num == FSigned(a) * b[3] + FSigned(b) * a[3]
    IN IF num = 0
       THEN <<(IF a[1] = 1 /\ b[1] = 1 THEN 1 ELSE 0), 0, 1>>
       ELSE FNorm((IF num < 0 THEN 1 ELSE 0), FAbs(num), a[3] * b[3])
FSub(a, b) == FAdd(a, FNeg(b))
FMul(a, b) == FNorm((a[1] + b[1]) % 2, a[2] * b[2], a[3] * b[3])
FDiv(a, b) == FNorm((a[1] + b[1]) % 2, a[2] * b[3], a[3] * b[2])
FLt(a, b) == FSigned(a) * b[3] < FSigned(b) * a[3]
FEq(a, b) == FSigned(a) * b[3] = FSigned(b) * a[3]

RECURSIVE IsPow2(_)
IsPow2(d) == d = 1 \/ (d > 1 /\ d % 2 = 0 /\ IsPow2(d \div 2))

(***************************************************************************)
(* Python's operators on two values of the same STIMPL type t.             *)
(***************************************************************************)
RECURSIVE StrLt(_, _)
\* lexicographic order of str, by code point
StrLt(a, b) ==
    IF b = <<>> THEN FALSE
    ELSE IF a = <<>> THEN TRUE
    ELSE IF Head(a) # Head(b) THEN Head(a) < Head(b)
    ELSE StrLt(Tail(a), Tail(b))

PyBool(b) == IF b THEN <<1>> ELSE <<0>>
PyAdd(a, b, t) ==
    CASE t = "Integer" -> <<a[1] + b[1]>>
      [] t = "String" -> a \o b
      [] t = "FloatingPoint" -> FAdd(a, b)
PySub(a, b, t) ==
    CASE t = "Integer" -> <<a[1] - b[1]>>
      [] t = "FloatingPoint" -> FSub(a, b)
PyMul(a, b, t) ==
    CASE t = "Integer" -> <<a[1] * b[1]>>
      [] t = "FloatingPoint" -> FMul(a, b)
\* faulty variant of PyFloorDiv: the quotient rounded toward zero
PyFloorDiv_truncating(a, b) ==
    IF (a[1] < 0) # (b[1] < 0) /\ a[1] % b[1] # 0
    THEN <<(a[1] \div b[1]) + 1>>
    ELSE <<a[1] \div b[1]>>

\* a // b on int: the floor of the quotient
PyFloorDiv(a, b) == <<a[1] \div b[1]>>
PyTrueDiv(a, b) == FDiv(a, b)
\* value == 0
PyEqZero(v, t) ==
    CASE t \in {"Integer", "Boolean"} -> v[1] = 0
      [] t = "FloatingPoint" -> v[2] = 0
      [] OTHER -> FALSE
PyLt(a, b, t) ==
    CASE t \in {"Integer", "Boolean"} -> a[1] < b[1]
      [] t = "String" -> StrLt(a, b)
      [] t = "FloatingPoint" -> FLt(a, b)
PyEq(a, b, t) ==
    CASE t = "FloatingPoint" -> FEq(a, b)
      [] OTHER -> a = b
PyLe(a, b, t) == PyLt(a, b, t) \/ PyEq(a, b, t)
\* f"{value}"
PyFormat(v, t) ==
    CASE t = "Integer" -> IntText(v[1])
      [] t = "Boolean" -> (IF v[1] = 1 THEN TextTrue ELSE TextFalse)
      [] t = "String" -> v
      [] t = "FloatingPoint" -> FloatText(v)

\* equality of two type objects (stimpl.types): by class
TypeEq(t1, t2) == t1 = t2

(***************************************************************************)
(* The binding chain.  A chain is the sequence of its frames, head first;  *)
(* EmptyState is the empty sequence.                                       *)
(***************************************************************************)
EmptyState == <<>>

\* faulty variant of set_value: a binding of the head frame's name rewrites that frame
set_value_in_place(self, variable_name, variable_value, variable_type) ==
    <<[variable_name |-> variable_name, value |-> <<variable_value, variable_type>>]>>
    \o (IF self # <<>> /\ Head(self).variable_name = variable_name THEN Tail(self) ELSE self)

\* State.set_value
set_value(self, variable_name, variable_value, variable_type) ==
    <<[variable_name |-> variable_name, value |-> <<variable_value, variable_type>>]>> \o self

RECURSIVE get_value_oldest(_, _)
\* faulty variant of get_value: the binding nearest to the tail wins
get_value_oldest(self, variable_name) ==
    IF self = <<>> THEN None
    ELSE IF get_value_oldest(Tail(self), variable_name) # None
         THEN get_value_oldest(Tail(self), variable_name)
    ELSE IF variable_name = Head(self).variable_name THEN Head(self).value
    ELSE None

RECURSIVE get_value(_, _)
\* State.get_value / EmptyState.get_value
get_value(self, variable_name) ==
    IF self = EmptyState THEN None
    ELSE IF variable_name = Head(self).variable_name THEN Head(self).value
    ELSE get_value(Tail(self), variable_name)


(***************************************************************************)
(* evaluate.  A call either returns (value, type, new_state) or raises one *)
(* of the interpreter's errors.  The record a call yields also carries     *)
(* log, the events of the call in the order they happen: the entry into    *)
(* and the exit from every recursive call with its depth, and every write  *)
(* of print.  The log is what is observable of a call from outside (its    *)
(* standard output) plus the history the ordering properties speak about.  *)
(* err = "NotTerminated" marks a call whose while loop the model stopped   *)
(* following after MaxIter iterations; it is not an outcome of the code.   *)
(***************************************************************************)
Errors == {"InterpSyntaxError", "InterpTypeError", "InterpMathError"}

Returned(value, type, new_state, log) ==
    [err |-> "none", value |-> value, type |-> type, new_state |-> new_state, log |-> log]
Raised(err, log) ==
    [err |-> err, value |-> None, type |-> "None", new_state |-> EmptyState, log |-> log]

CallEvent(expression, state, depth) ==
    [ev |-> "call", depth |-> depth, node |-> expression, state |-> state]
ExitEvent(r, expression, depth) ==
    IF r.err = "none"
    THEN [ev |-> "return", depth |-> depth, node |-> expression,
          value |-> r.value, type |-> r.type, state |-> r.new_state]
    ELSE [ev |-> "raise", depth |-> depth, node |-> expression, err |-> r.err]
\* print(text): the text and a newline go to standard output
PrintEvent(text, depth) == [ev |-> "print", depth |-> depth, text |-> text \o <<NEWLINE>>]

RECURSIVE evaluate(_, _, _)

\* case Ren
evaluate_Ren(expression, state, depth) == Returned(None, "Unit", state, <<>>)

\* case IntLiteral
evaluate_IntLiteral(expression, state, depth) ==
    Returned(expression.literal, "Integer", state, <<>>)

\* case FloatingPointLiteral
evaluate_FloatingPointLiteral(expression, state, depth) ==
    Returned(expression.literal, "FloatingPoint", state, <<>>)

\* case StringLiteral
evaluate_StringLiteral(expression, state, depth) ==
    Returned(expression.literal, "String", state, <<>>)

\* case BooleanLiteral
evaluate_BooleanLiteral(expression, state, depth) ==
    Returned(expression.literal, "Boolean", state, <<>>)

\* faulty variant of evaluate_Print: no special text for Unit, None is written as is
evaluate_Print_plain(expression, state, depth) ==
    LET p == evaluate(expression.to_print, state, depth + 1)
        text == IF p.type = "Unit" THEN <<78, 111, 110, 101>> ELSE PyFormat(p.value, p.type)
    IN IF p.err # "none" THEN Raised(p.err, p.log)
       ELSE Returned(p.value, p.type, p.new_state, p.log \o <<PrintEvent(text, depth)>>)

\* case Print
evaluate_Print(expression, state, depth) ==
    LET p == evaluate(expression.to_print, state, depth + 1)
        text == IF p.type = "Unit" THEN TextUnit ELSE PyFormat(p.value, p.type)
    IN IF p.err # "none" THEN Raised(p.err, p.log)
       ELSE Returned(p.value, p.type, p.new_state, p.log \o <<PrintEvent(text, depth)>>)

RECURSIVE sequence_loop(_, _, _)
\* the for loop of case Sequence | Program; acc is the result so far
sequence_loop(exprs, acc, depth) ==
    IF exprs = <<>> THEN acc
    ELSE LET e == evaluate(Head(exprs), acc.new_state, depth + 1)
         IN IF e.err # "none" THEN Raised(e.err, acc.log \o e.log)
            ELSE sequence_loop(Tail(exprs), [e EXCEPT !.log = acc.log \o e.log], depth)

\* case Sequence | Program
evaluate_Sequence(expression, state, depth) ==
    sequence_loop(expression.exprs, evaluate([kind |-> "Ren"], state, depth + 1), depth)

\* case Variable
evaluate_Variable(expression, state, depth) ==
    LET value == get_value(state, expression.variable_name)
    IN IF value = None THEN Raised("InterpSyntaxError", <<>>)
       ELSE Returned(value[1], value[2], state, <<>>)

\* faulty variant of evaluate_Assign: the name is looked up in the incoming chain
evaluate_Assign_incoming(expression, state, depth) ==
    LET v == evaluate(expression.value, state, depth + 1)
        variable_from_state == get_value(state, expression.variable.variable_name)
        variable_type == IF variable_from_state # None THEN variable_from_state[2] ELSE "None"
    IN IF v.err # "none" THEN Raised(v.err, v.log)
       ELSE IF ~TypeEq(v.type, variable_type) /\ ~TypeEq(variable_type, "None")
            THEN Raised("InterpTypeError", v.log)
       ELSE Returned(v.value, v.type,
                     set_value(v.new_state, expression.variable.variable_name, v.value, v.type),
                     v.log)

\* faulty variant of evaluate_Assign: no check of the type the name is bound with
evaluate_Assign_unchecked(expression, state, depth) ==
    LET v == evaluate(expression.value, state, depth + 1)
    IN IF v.err # "none" THEN Raised(v.err, v.log)
       ELSE Returned(v.value, v.type,
                     set_value(v.new_state, expression.variable.variable_name, v.value, v.type),
                     v.log)

\* case Assign
evaluate_Assign(expression, state, depth) ==
    LET v == evaluate(expression.value, state, depth + 1)
        variable_from_state == get_value(v.new_state, expression.variable.variable_name)
        variable_type == IF variable_from_state # None THEN variable_from_state[2] ELSE "None"
    IN IF v.err # "none" THEN Raised(v.err, v.log)
       ELSE IF ~TypeEq(v.type, variable_type) /\ ~TypeEq(variable_type, "None")
            THEN Raised("InterpTypeError", v.log)
       ELSE Returned(v.value, v.type,
                     set_value(v.new_state, expression.variable.variable_name, v.value, v.type),
                     v.log)

\* case Add
evaluate_Add(expression, state, depth) ==
    LET l == evaluate(expression.left, state, depth + 1)
        r == evaluate(expression.right, l.new_state, depth + 1)
    IN IF l.err # "none" THEN Raised(l.err, l.log)
       ELSE IF r.err # "none" THEN Raised(r.err, l.log \o r.log)
       ELSE IF ~TypeEq(l.type, r.type) THEN Raised("InterpTypeError", l.log \o r.log)
       ELSE IF l.type \in {"Integer", "String", "FloatingPoint"}
            THEN Returned(PyAdd(l.value, r.value, l.type), l.type, r.new_state, l.log \o r.log)
       ELSE Raised("InterpTypeError", l.log \o r.log)

\* case Subtract
evaluate_Subtract(expression, state, depth) ==
    LET l == evaluate(expression.left, state, depth + 1)
        r == evaluate(expression.right, l.new_state, depth + 1)
    IN IF l.err # "none" THEN Raised(l.err, l.log)
       ELSE IF r.err # "none" THEN Raised(r.err, l.log \o r.log)
       ELSE IF ~TypeEq(l.type, r.type) THEN Raised("InterpTypeError", l.log \o r.log)
       ELSE IF l.type \in {"Integer", "FloatingPoint"}
            THEN Returned(PySub(l.value, r.value, l.type), l.type, r.new_state, l.log \o r.log)
       ELSE Raised("InterpTypeError", l.log \o r.log)

\* case Multiply
evaluate_Multiply(expression, state, depth) ==
    LET l == evaluate(expression.left, state, depth + 1)
        r == evaluate(expression.right, l.new_state, depth + 1)
    IN IF l.err # "none" THEN Raised(l.err, l.log)
       ELSE IF r.err # "none" THEN Raised(r.err, l.log \o r.log)
       ELSE IF ~TypeEq(l.type, r.type) THEN Raised("InterpTypeError", l.log \o r.log)
       ELSE IF l.type \in {"Integer", "FloatingPoint"}
            THEN Returned(PyMul(l.value, r.value, l.type), l.type, r.new_state, l.log \o r.log)
       ELSE Raised("InterpTypeError", l.log \o r.log)

\* case Divide
evaluate_Divide(expression, state, depth) ==
    LET l == evaluate(expression.left, state, depth + 1)
        r == evaluate(expression.right, l.new_state, depth + 1)
    IN IF l.err # "none" THEN Raised(l.err, l.log)
       ELSE IF r.err # "none" THEN Raised(r.err, l.log \o r.log)
       ELSE IF ~TypeEq(l.type, r.type) THEN Raised("InterpTypeError", l.log \o r.log)
       ELSE IF PyEqZero(r.value, r.type) THEN Raised("InterpMathError", l.log \o r.log)
       ELSE IF l.type = "Integer"
            THEN Returned(PyFloorDiv(l.value, r.value), l.type, r.new_state, l.log \o r.log)
       ELSE IF l.type = "FloatingPoint"
            THEN Returned(PyTrueDiv(l.value, r.value), l.type, r.new_state, l.log \o r.log)
       ELSE Raised("InterpTypeError", l.log \o r.log)

\* faulty variant of evaluate_And: a false left operand decides, the right is skipped
evaluate_And_short_circuit(expression, state, depth) ==
    LET l == evaluate(expression.left, state, depth + 1)
        r == evaluate(expression.right, l.new_state, depth + 1)
    IN IF l.err # "none" THEN Raised(l.err, l.log)
       ELSE IF l.type = "Boolean" /\ l.value = <<0>>
            THEN Returned(l.value, l.type, l.new_state, l.log)
       ELSE IF r.err # "none" THEN Raised(r.err, l.log \o r.log)
       ELSE IF ~TypeEq(l.type, r.type) THEN Raised("InterpTypeError", l.log \o r.log)
       ELSE IF l.type = "Boolean"
            THEN Returned((IF l.value = <<0>> THEN l.value ELSE r.value), l.type, r.new_state,
                          l.log \o r.log)
       ELSE Raised("InterpTypeError", l.log \o r.log)

\* case And
evaluate_And(expression, state, depth) ==
    LET l == evaluate(expression.left, state, depth + 1)
        r == evaluate(expression.right, l.new_state, depth + 1)
    IN IF l.err # "none" THEN Raised(l.err, l.log)
       ELSE IF r.err # "none" THEN Raised(r.err, l.log \o r.log)
       ELSE IF ~TypeEq(l.type, r.type) THEN Raised("InterpTypeError", l.log \o r.log)
       ELSE IF l.type = "Boolean"
            THEN Returned((IF l.value = <<0>> THEN l.value ELSE r.value), l.type, r.new_state, l.log \o r.log)
       ELSE Raised("InterpTypeError", l.log \o r.log)

\* case Or
evaluate_Or(expression, state, depth) ==
    LET l == evaluate(expression.left, state, depth + 1)
        r == evaluate(expression.right, l.new_state, depth + 1)
    IN IF l.err # "none" THEN Raised(l.err, l.log)
       ELSE IF r.err # "none" THEN Raised(r.err, l.log \o r.log)
       ELSE IF ~TypeEq(l.type, r.type) THEN Raised("InterpTypeError", l.log \o r.log)
       ELSE IF l.type = "Boolean"
            THEN Returned((IF l.value # <<0>> THEN l.value ELSE r.value), l.type, r.new_state, l.log \o r.log)
       ELSE Raised("InterpTypeError", l.log \o r.log)

\* case Not
evaluate_Not(expression, state, depth) ==
    LET e == evaluate(expression.expr, state, depth + 1)
    IN IF e.err # "none" THEN Raised(e.err, e.log)
       ELSE IF e.type = "Boolean"
            THEN Returned(PyBool(e.value = <<0>>), e.type, e.new_state, e.log)
       ELSE Raised("InterpTypeError", e.log)

\* faulty variant of evaluate_If: both branches run, the one selected is returned
evaluate_If_eager(expression, state, depth) ==
    LET c == evaluate(expression.condition, state, depth + 1)
        t == evaluate(expression.true, c.new_state, depth + 1)
        f == evaluate(expression.false, t.new_state, depth + 1)
    IN IF c.err # "none" THEN Raised(c.err, c.log)
       ELSE IF c.type # "Boolean" THEN Raised("InterpTypeError", c.log)
       ELSE IF t.err # "none" THEN Raised(t.err, c.log \o t.log)
       ELSE IF f.err # "none" THEN Raised(f.err, c.log \o t.log \o f.log)
       ELSE IF c.value # <<0>>
            THEN Returned(t.value, t.type, f.new_state, c.log \o t.log \o f.log)
       ELSE Returned(f.value, f.type, f.new_state, c.log \o t.log \o f.log)

\* case If
evaluate_If(expression, state, depth) ==
    LET c == evaluate(expression.condition, state, depth + 1)
        b == IF c.value # <<0>>
             THEN evaluate(expression.true, c.new_state, depth + 1)
             ELSE evaluate(expression.false, c.new_state, depth + 1)
    IN IF c.err # "none" THEN Raised(c.err, c.log)
       ELSE IF c.type # "Boolean" THEN Raised("InterpTypeError", c.log)
       ELSE [b EXCEPT !.log = c.log \o b.log]

\* case Lt
evaluate_Lt(expression, state, depth) ==
    LET l == evaluate(expression.left, state, depth + 1)
        r == evaluate(expression.right, l.new_state, depth + 1)
    IN IF l.err # "none" THEN Raised(l.err, l.log)
       ELSE IF r.err # "none" THEN Raised(r.err, l.log \o r.log)
       ELSE IF ~TypeEq(l.type, r.type) THEN Raised("InterpTypeError", l.log \o r.log)
       ELSE IF l.type \in {"Integer", "Boolean", "String", "FloatingPoint"}
            THEN Returned(PyBool(PyLt(l.value, r.value, l.type)), "Boolean", r.new_state, l.log \o r.log)
       ELSE IF l.type = "Unit"
            THEN Returned(PyBool(FALSE), "Boolean", r.new_state, l.log \o r.log)
       ELSE Raised("InterpTypeError", l.log \o r.log)

\* case Lte
evaluate_Lte(expression, state, depth) ==
    LET l == evaluate(expression.left, state, depth + 1)
        r == evaluate(expression.right, l.new_state, depth + 1)
    IN IF l.err # "none" THEN Raised(l.err, l.log)
       ELSE IF r.err # "none" THEN Raised(r.err, l.log \o r.log)
       ELSE IF ~TypeEq(l.type, r.type) THEN Raised("InterpTypeError", l.log \o r.log)
       ELSE IF l.type \in {"Integer", "Boolean", "String", "FloatingPoint"}
            THEN Returned(PyBool(PyLe(l.value, r.value, l.type)), "Boolean", r.new_state, l.log \o r.log)
       ELSE IF l.type = "Unit"
            THEN Returned(PyBool(TRUE), "Boolean", r.new_state, l.log \o r.log)
       ELSE Raised("InterpTypeError", l.log \o r.log)

\* case Gt
evaluate_Gt(expression, state, depth) ==
    LET l == evaluate(expression.left, state, depth + 1)
        r == evaluate(expression.right, l.new_state, depth + 1)
    IN IF l.err # "none" THEN Raised(l.err, l.log)
       ELSE IF r.err # "none" THEN Raised(r.err, l.log \o r.log)
       ELSE IF ~TypeEq(l.type, r.type) THEN Raised("InterpTypeError", l.log \o r.log)
       ELSE IF l.type \in {"Integer", "Boolean", "String", "FloatingPoint"}
            THEN Returned(PyBool(PyLt(r.value, l.value, l.type)), "Boolean", r.new_state, l.log \o r.log)
       ELSE IF l.type = "Unit"
            THEN Returned(PyBool(FALSE), "Boolean", r.new_state, l.log \o r.log)
       ELSE Raised("InterpTypeError", l.log \o r.log)

\* case Gte
evaluate_Gte(expression, state, depth) ==
    LET l == evaluate(expression.left, state, depth + 1)
        r == evaluate(expression.right, l.new_state, depth + 1)
    IN IF l.err # "none" THEN Raised(l.err, l.log)
       ELSE IF r.err # "none" THEN Raised(r.err, l.log \o r.log)
       ELSE IF ~TypeEq(l.type, r.type) THEN Raised("InterpTypeError", l.log \o r.log)
       ELSE IF l.type \in {"Integer", "Boolean", "String", "FloatingPoint"}
            THEN Returned(PyBool(PyLe(r.value, l.value, l.type)), "Boolean", r.new_state, l.log \o r.log)
       ELSE IF l.type = "Unit"
            THEN Returned(PyBool(TRUE), "Boolean", r.new_state, l.log \o r.log)
       ELSE Raised("InterpTypeError", l.log \o r.log)

\* case Eq
evaluate_Eq(expression, state, depth) ==
    LET l == evaluate(expression.left, state, depth + 1)
        r == evaluate(expression.right, l.new_state, depth + 1)
    IN IF l.err # "none" THEN Raised(l.err, l.log)
       ELSE IF r.err # "none" THEN Raised(r.err, l.log \o r.log)
       ELSE IF ~TypeEq(l.type, r.type) THEN Raised("InterpTypeError", l.log \o r.log)
       ELSE IF l.type \in {"Integer", "Boolean", "String", "FloatingPoint"}
            THEN Returned(PyBool(PyEq(l.value, r.value, l.type)), "Boolean", r.new_state, l.log \o r.log)
       ELSE IF l.type = "Unit"
            THEN Returned(PyBool(TRUE), "Boolean", r.new_state, l.log \o r.log)
       ELSE Raised("InterpTypeError", l.log \o r.log)

\* case Ne
evaluate_Ne(expression, state, depth) ==
    LET l == evaluate(expression.left, state, depth + 1)
        r == evaluate(expression.right, l.new_state, depth + 1)
    IN IF l.err # "none" THEN Raised(l.err, l.log)
       ELSE IF r.err # "none" THEN Raised(r.err, l.log \o r.log)
       ELSE IF ~TypeEq(l.type, r.type) THEN Raised("InterpTypeError", l.log \o r.log)
       ELSE IF l.type \in {"Integer", "Boolean", "String", "FloatingPoint"}
            THEN Returned(PyBool(~PyEq(l.value, r.value, l.type)), "Boolean", r.new_state, l.log \o r.log)
       ELSE IF l.type = "Unit"
            THEN Returned(PyBool(FALSE), "Boolean", r.new_state, l.log \o r.log)
       ELSE Raised("InterpTypeError", l.log \o r.log)

\* faulty variant of while_loop: an if, the body runs at most once
while_loop_once(expression, c, iter, depth) ==
    IF c.value = <<0>> THEN Returned(c.value, c.type, c.new_state, c.log)
    ELSE LET b == evaluate(expression.body, c.new_state, depth + 1)
             c2 == evaluate(expression.condition, b.new_state, depth + 1)
         IN IF b.err # "none" THEN Raised(b.err, c.log \o b.log)
            ELSE IF c2.err # "none" THEN Raised(c2.err, c.log \o b.log \o c2.log)
            ELSE IF c2.type # "Boolean"
                 THEN Raised("InterpTypeError", c.log \o b.log \o c2.log)
            ELSE Returned(c2.value, c2.type, c2.new_state, c.log \o b.log \o c2.log)

RECURSIVE while_loop(_, _, _, _)
\* the while statement of case While; c is the latest evaluation of the
\* condition (of type Boolean) with the log so far, iter the iterations done
while_loop(expression, c, iter, depth) ==
    IF c.value = <<0>> THEN Returned(c.value, c.type, c.new_state, c.log)
    ELSE IF iter >= MaxIter THEN Raised("NotTerminated", c.log)
    ELSE LET b == evaluate(expression.body, c.new_state, depth + 1)
             c2 == evaluate(expression.condition, b.new_state, depth + 1)
         IN IF b.err # "none" THEN Raised(b.err, c.log \o b.log)
            ELSE IF c2.err # "none" THEN Raised(c2.err, c.log \o b.log \o c2.log)
            ELSE IF c2.type # "Boolean"
                 THEN Raised("InterpTypeError", c.log \o b.log \o c2.log)
            ELSE while_loop(expression, [c2 EXCEPT !.log = c.log \o b.log \o c2.log],
                            iter + 1, depth)

\* case While
evaluate_While(expression, state, depth) ==
    LET c == evaluate(expression.condition, state, depth + 1)
    IN IF c.err # "none" THEN Raised(c.err, c.log)
       ELSE IF c.type # "Boolean" THEN Raised("InterpTypeError", c.log)
       ELSE while_loop(expression, c, 0, depth)

\* the match statement of evaluate
dispatch(expression, state, depth) ==
    CASE expression.kind = "Ren" -> evaluate_Ren(expression, state, depth)
      [] expression.kind = "IntLiteral" -> evaluate_IntLiteral(expression, state, depth)
      [] expression.kind = "FloatingPointLiteral" ->
            evaluate_FloatingPointLiteral(expression, state, depth)
      [] expression.kind = "StringLiteral" -> evaluate_StringLiteral(expression, state, depth)
      [] expression.kind = "BooleanLiteral" -> evaluate_BooleanLiteral(expression, state, depth)
      [] expression.kind = "Print" -> evaluate_Print(expression, state, depth)
      [] expression.kind \in {"Sequence", "Program"} ->
            evaluate_Sequence(expression, state, depth)
      [] expression.kind = "Variable" -> evaluate_Variable(expression, state, depth)
      [] expression.kind = "Assign" -> evaluate_Assign(expression, state, depth)
      [] expression.kind = "Add" -> evaluate_Add(expression, state, depth)
      [] expression.kind = "Subtract" -> evaluate_Subtract(expression, state, depth)
      [] expression.kind = "Multiply" -> evaluate_Multiply(expression, state, depth)
      [] expression.kind = "Divide" -> evaluate_Divide(expression, state, depth)
      [] expression.kind = "And" -> evaluate_And(expression, state, depth)
      [] expression.kind = "Or" -> evaluate_Or(expression, state, depth)
      [] expression.kind = "Not" -> evaluate_Not(expression, state, depth)
      [] expression.kind = "If" -> evaluate_If(expression, state, depth)
      [] expression.kind = "Lt" -> evaluate_Lt(expression, state, depth)
      [] expression.kind = "Lte" -> evaluate_Lte(expression, state, depth)
      [] expression.kind = "Gt" -> evaluate_Gt(expression, state, depth)
      [] expression.kind = "Gte" -> evaluate_Gte(expression, state, depth)
      [] expression.kind = "Eq" -> evaluate_Eq(expression, state, depth)
      [] expression.kind = "Ne" -> evaluate_Ne(expression, state, depth)
      [] expression.kind = "While" -> evaluate_While(expression, state, depth)
      [] OTHER -> Raised("InterpSyntaxError", <<>>)

evaluate(expression, state, depth) ==
    LET r == dispatch(expression, state, depth)
    IN [r EXCEPT !.log = <<CallEvent(expression, state, depth)>> \o r.log
                         \o <<ExitEvent(r, expression, depth)>>]

(***************************************************************************)
(* The nodes of stimpl.expression, with the field names evaluate matches.  *)
(***************************************************************************)
Ren == [kind |-> "Ren"]
IntLiteral(l) == [kind |-> "IntLiteral", literal |-> <<l>>]
FloatingPointLiteral(l) == [kind |-> "FloatingPointLiteral", literal |-> l]
StringLiteral(l) == [kind |-> "StringLiteral", literal |-> l]
BooleanLiteral(l) == [kind |-> "BooleanLiteral", literal |-> PyBool(l)]
PrintNode(e) == [kind |-> "Print", to_print |-> e]
Sequence(es) == [kind |-> "Sequence", exprs |-> es]
Program(es) == [kind |-> "Program", exprs |-> es]
Variable(n) == [kind |-> "Variable", variable_name |-> n]
Assign(var, e) == [kind |-> "Assign", variable |-> var, value |-> e]
BinaryNode(k, l, r) == [kind |-> k, left |-> l, right |-> r]
Add(l, r) == BinaryNode("Add", l, r)
Divide(l, r) == BinaryNode("Divide", l, r)
Lt(l, r) == BinaryNode("Lt", l, r)
Not(e) == [kind |-> "Not", expr |-> e]
If(c, t, f) == [kind |-> "If", condition |-> c, true |-> t, false |-> f]
While(c, b) == [kind |-> "While", condition |-> c, body |-> b]

BinaryKinds == {"Add", "Subtract", "Multiply", "Divide", "And", "Or",
                "Lt", "Lte", "Gt", "Gte", "Eq", "Ne"}

(***************************************************************************)
(* The inputs the model draws from.                                        *)
(***************************************************************************)
\* integer literals of the division programs range over -MaxInt .. MaxInt
MaxInt == 7
\* longest list of statements of a generated Sequence or Program
MaxSeqLen == 2

X == Variable("x")
Y == Variable("y")
TextA == <<97>>
TextALineB == <<97, NEWLINE, 98>>
Half == <<0, 1, 2>>
FZero == <<0, 0, 1>>
FNegTwo == <<1, 2, 1>>

\* the frames State.set_value is called with from outside evaluate
ChainFrames ==
    { <<"x", <<1>>, "Integer">>, <<"x", <<1>>, "Boolean">> }

Atoms ==
    { Ren, IntLiteral(0), IntLiteral(1), IntLiteral(-2),
      FloatingPointLiteral(FZero), FloatingPointLiteral(Half),
      FloatingPointLiteral(FNegTwo),
      StringLiteral(<<>>), StringLiteral(TextA), StringLiteral(TextALineB),
      BooleanLiteral(FALSE), BooleanLiteral(TRUE), X, Y }

\* operands with an effect on the chain or on standard output
Effects ==
    { Assign(X, IntLiteral(2)), Assign(X, BooleanLiteral(TRUE)), Assign(Y, Ren),
      PrintNode(IntLiteral(-2)), PrintNode(BooleanLiteral(FALSE)),
      PrintNode(StringLiteral(TextALineB)), PrintNode(Ren),
      PrintNode(FloatingPointLiteral(Half)) }

Operands == Atoms \cup Effects

UnaryPrograms ==
    {PrintNode(e) : e \in Operands} \cup {Not(e) : e \in Operands}
    \cup {Assign(v, e) : v \in {X, Y}, e \in Operands}
    \cup { Assign(X, Sequence(<<Assign(X, StringLiteral(TextA)), IntLiteral(1)>>)),
           Assign(X, Sequence(<<Assign(X, IntLiteral(2)), IntLiteral(1)>>)),
           PrintNode(PrintNode(Assign(X, FloatingPointLiteral(FNegTwo)))),
           [kind |-> "Lambda"] }

BinaryOperands ==
    { Ren, IntLiteral(0), IntLiteral(1), FloatingPointLiteral(FZero),
      FloatingPointLiteral(Half), StringLiteral(TextA),
      BooleanLiteral(FALSE), BooleanLiteral(TRUE), X,
      Assign(X, IntLiteral(2)), PrintNode(BooleanLiteral(FALSE)),
      PrintNode(StringLiteral(TextALineB)), PrintNode(Ren) }

BinaryPrograms ==
    {BinaryNode(k, l, r) : k \in BinaryKinds, l \in BinaryOperands, r \in BinaryOperands}

DividePrograms ==
    {Divide(IntLiteral(a), IntLiteral(b)) : a \in (-MaxInt)..MaxInt, b \in (-MaxInt)..MaxInt}

Conditions ==
    { BooleanLiteral(TRUE), BooleanLiteral(FALSE), IntLiteral(1), Ren, X,
      PrintNode(BooleanLiteral(FALSE)), Assign(X, BooleanLiteral(TRUE)), Not(X) }

Branches ==
    { Assign(X, IntLiteral(1)), Assign(X, IntLiteral(2)), Assign(Y, StringLiteral(TextA)),
      PrintNode(StringLiteral(TextA)), IntLiteral(1), X, Not(Ren) }

IfPrograms == {If(c, t, f) : c \in Conditions, t \in Branches, f \in Branches}

LoopConditions ==
    Conditions \cup { Lt(X, IntLiteral(3)), Lt(X, IntLiteral(9)), PrintNode(Lt(X, IntLiteral(3))),
                      BinaryNode("Ne", X, IntLiteral(3)) }

LoopBodies ==
    { Ren, Assign(X, Add(X, IntLiteral(1))), Assign(X, BooleanLiteral(FALSE)),
      Assign(X, StringLiteral(TextA)), PrintNode(X), Not(Ren),
      Sequence(<<PrintNode(X), Assign(X, Add(X, IntLiteral(1))), Assign(Y, X)>>),
      Assign(X, Not(X)) }

WhilePrograms == {While(c, b) : c \in LoopConditions, b \in LoopBodies}

\* i = 0; sum = 0; while i < n: sum = sum + i; i = i + 1
CountingLoop(n) ==
    <<Assign(Variable("i"), IntLiteral(0)),
      Assign(Variable("sum"), IntLiteral(0)),
      While(Lt(Variable("i"), IntLiteral(n)),
            Sequence(<<Assign(Variable("sum"), Add(Variable("sum"), Variable("i"))),
                       Assign(Variable("i"), Add(Variable("i"), IntLiteral(1)))>>))>>

Statements ==
    { Assign(X, IntLiteral(1)), Assign(X, StringLiteral(TextA)), Assign(Y, X), X,
      PrintNode(X), IntLiteral(2),
      If(BooleanLiteral(FALSE), Assign(X, IntLiteral(1)), Assign(X, IntLiteral(2))),
      While(Lt(X, IntLiteral(3)), Assign(X, Add(X, IntLiteral(1)))),
      PrintNode(Assign(Y, StringLiteral(TextALineB))),
      Divide(X, IntLiteral(0)) }

StatementLists == UNION {[1..n -> Statements] : n \in 0..MaxSeqLen}

Programs ==
    {Program(es) : es \in StatementLists}
    \cup {Program(CountingLoop(n)) : n \in 0..(MaxIter + 1)}
    \cup {Program(<<e>>) : e \in WhilePrograms}

Expressions ==
    Atoms \cup UnaryPrograms \cup BinaryPrograms \cup DividePrograms \cup IfPrograms
    \cup WhilePrograms \cup Programs

(***************************************************************************)
(* The callers of the evaluator.                                           *)
(***************************************************************************)
IsPrintEvent(e) == e.ev = "print"

RECURSIVE Concat(_)
Concat(events) ==
    IF events = <<>> THEN <<>> ELSE Head(events).text \o Concat(Tail(events))

\* the characters the print events of a log put on standard output
Stdout(log) == Concat(SelectSeq(log, IsPrintEvent))

NoResult == [err |-> "pending", value |-> None, type |-> "None",
             new_state |-> EmptyState, log |-> <<>>]

Init ==
    /\ program = Ren
    /\ chain = EmptyState
    /\ pc = "ready"
    /\ result = NoResult
    /\ stdout = <<>>

\* a caller extends the State object it is going to pass to evaluate
SetValue(variable_name, variable_value, variable_type) ==
    /\ pc = "ready"
    /\ Len(chain) < MaxChain
    /\ chain' = set_value(chain, variable_name, variable_value, variable_type)
    /\ UNCHANGED <<program, pc, result, stdout>>

\* a caller calls evaluate(e, chain)
Evaluate(e) ==
    /\ pc = "ready"
    /\ program' = e
    /\ result' = evaluate(e, chain, 0)
    /\ stdout' = stdout \o Stdout(result'.log)
    /\ pc' = "evaluate"
    /\ UNCHANGED chain

\* run_stimpl(p), debug = False
RunStimpl(p) ==
    /\ pc = "ready"
    /\ program' = p
    /\ chain' = EmptyState
    /\ result' = evaluate(p, EmptyState, 0)
    /\ stdout' = stdout \o Stdout(result'.log)
    /\ pc' = "run_stimpl"

Next ==
    \/ \E f \in ChainFrames : SetValue(f[1], f[2], f[3])
    \/ \E e \in Expressions : Evaluate(e)
    \/ \E p \in Programs : RunStimpl(p)

Spec == Init /\ [][Next]_vars

Done == pc \in {"evaluate", "run_stimpl"}
ReturnedOK == Done /\ result.err = "none"

(***************************************************************************)
(* Auxiliary definitions of the properties.                                *)
(***************************************************************************)
\* the calls the outermost call makes itself, each with its exit
IsChildEvent(e) == e.depth = 1 /\ e.ev # "print"
Children(log) == SelectSeq(log, IsChildEvent)

\* c is a tail of c2: c2 is c with zero or more frames in front
IsSuffix(c, c2) ==
    /\ Len(c) <= Len(c2)
    /\ SubSeq(c2, Len(c2) - Len(c) + 1, Len(c2)) = c

ProbeNames == {"x", "y", "z"}
ProbeValues ==
    { <<None, "Unit">>, <<<<1>>, "Integer">>, <<<<0>>, "Boolean">>,
      <<TextA, "String">>, <<Half, "FloatingPoint">> }

\* every float the call produced is one the model represents exactly
FloatsExact ==
    /\ result.type = "FloatingPoint" => IsPow2(result.value[3])
    /\ \A i \in 1..Len(result.log) :
          (result.log[i].ev = "return" /\ result.log[i].type = "FloatingPoint")
             => IsPow2(result.log[i].value[3])

(***************************************************************************)
(* C2.  Shadowing: looking a name up in a chain extended with a binding of *)
(* that name gives the new binding, looking any other name up gives what   *)
(* the chain gave before; the empty chain binds nothing.                   *)
(***************************************************************************)
ShadowingAt(c) ==
    \A n \in ProbeNames : \A vt \in ProbeValues :
        /\ get_value(set_value(c, n, vt[1], vt[2]), n) = vt
        /\ \A n2 \in ProbeNames \ {n} :
              get_value(set_value(c, n, vt[1], vt[2]), n2) = get_value(c, n2)

\* C2: shadowing holds at the chain built so far, at the chain the call
\* returned and at the empty chain
C2_Shadowing ==
    /\ ShadowingAt(chain)
    /\ ShadowingAt(result.new_state)
    /\ \A n \in ProbeNames : get_value(EmptyState, n) = None

\* a chain that binds x twice and y, so that extension shadows
C2_Witness ==
    /\ Len(result.new_state) >= 3
    /\ result.new_state[1].variable_name = "x"
    /\ \E i \in 2..Len(result.new_state) : result.new_state[i].variable_name = "x"
    /\ get_value(result.new_state, "y") # None

(***************************************************************************)
(* C1.  Assign(name, e) evaluates e in the incoming chain, looks name up   *)
(* in the chain e returned, raises InterpTypeError when that chain binds   *)
(* name with another type, and otherwise returns e's value and type and    *)
(* e's chain with exactly one new head frame (name, value, type).          *)
(***************************************************************************)
\* C1: a top-level Assign yields what the rule above composes from the outcome
\* of its value expression
C1_Assign ==
    (Done /\ program.kind = "Assign") =>
        LET e == evaluate(program.value, chain, 1)
            name == program.variable.variable_name
            bound == get_value(e.new_state, name)
            first == result.log[2]
        IN /\ first.ev = "call" /\ first.node = program.value /\ first.state = chain
           /\ e.err = "none" =>
                IF bound # None /\ bound[2] # e.type
                THEN result.err = "InterpTypeError"
                ELSE /\ result.err = "none"
                     /\ result.value = e.value
                     /\ result.type = e.type
                     /\ Len(result.new_state) = Len(e.new_state) + 1
                     /\ Tail(result.new_state) = e.new_state
                     /\ Head(result.new_state) =
                           [variable_name |-> name, value |-> <<e.value, e.type>>]

\* the only binding of x that mismatches is the one the value expression made
C1_Witness ==
    /\ Done
    /\ program = Assign(X, Sequence(<<Assign(X, StringLiteral(TextA)), IntLiteral(1)>>))
    /\ get_value(chain, "x") = None
    /\ result.err = "InterpTypeError"

(***************************************************************************)
(* C3.  If(c, t, f) evaluates c, raises InterpTypeError without evaluating *)
(* a branch when c is not Boolean, and otherwise evaluates exactly the     *)
(* branch c selects in the chain c returned and yields that branch's       *)
(* outcome; the other branch leaves no binding and no output.  So          *)
(* If(false, x := 1, x := 2) followed by x yields 2.                       *)
(***************************************************************************)
ShortCircuitExample ==
    Program(<<If(BooleanLiteral(FALSE), Assign(X, IntLiteral(1)), Assign(X, IntLiteral(2))), X>>)

\* C3: a top-level If calls its condition and only the selected branch, and
\* the example program yields 2
C3_If ==
    /\ (Done /\ program.kind = "If") =>
        LET c == evaluate(program.condition, chain, 1)
            taken == IF c.value = <<1>> THEN program.true ELSE program.false
            b == evaluate(taken, c.new_state, 1)
            kids == Children(result.log)
        IN /\ kids[1].ev = "call" /\ kids[1].node = program.condition
           /\ c.err = "none" =>
                IF c.type # "Boolean"
                THEN /\ result.err = "InterpTypeError"
                     /\ Len(kids) = 2
                     /\ Stdout(result.log) = Stdout(c.log)
                ELSE /\ Len(kids) = 4
                     /\ kids[3].ev = "call" /\ kids[3].node = taken
                     /\ kids[3].state = c.new_state
                     /\ result.err = b.err
                     /\ result.value = b.value
                     /\ result.type = b.type
                     /\ result.new_state = b.new_state
                     /\ Stdout(result.log) = Stdout(c.log) \o Stdout(b.log)
    /\ (pc = "run_stimpl" /\ program = ShortCircuitExample) =>
        /\ result.err = "none"
        /\ result.type = "Integer"
        /\ result.value = <<2>>

C3_Witness ==
    /\ pc = "run_stimpl"
    /\ program = ShortCircuitExample
    /\ get_value(result.new_state, "x") = <<<<2>>, "Integer">>
    /\ Len(result.new_state) = 1

(***************************************************************************)
(* C4.  While(cond, body) evaluates cond, body, cond, body, ... each in    *)
(* the chain the previous one left, goes on exactly as long as cond yields *)
(* true, and when it ends without error returns (false, Boolean, chain of  *)
(* the last evaluation of cond).  The loop that counts i from 0 up to 5    *)
(* and adds i into sum ends with sum = 10 and i = 5.                       *)
(***************************************************************************)
CountingExample == Program(CountingLoop(5))

\* C4: the calls of a top-level While alternate condition and body until the
\* condition yields false, and the counting loop ends with sum 10 and i 5
C4_While ==
    /\ (Done /\ program.kind = "While") =>
        LET kids == Children(result.log)
            n == Len(kids) \div 2
        IN /\ Len(kids) = 2 * n
           /\ n >= 1
           /\ \A k \in 1..n :
                /\ kids[2 * k - 1].ev = "call"
                /\ kids[2 * k - 1].node =
                      (IF k % 2 = 1 THEN program.condition ELSE program.body)
                /\ kids[2 * k - 1].state =
                      (IF k = 1 THEN chain ELSE kids[2 * k - 2].state)
                /\ k < n => kids[2 * k].ev = "return"
                /\ (k < n /\ k % 2 = 1) =>
                      kids[2 * k].type = "Boolean" /\ kids[2 * k].value = <<1>>
           /\ result.err = "none" =>
                /\ n % 2 = 1
                /\ kids[2 * n].ev = "return"
                /\ kids[2 * n].value = <<0>>
                /\ result.value = <<0>>
                /\ result.type = "Boolean"
                /\ result.new_state = kids[2 * n].state
    /\ (pc = "run_stimpl" /\ program = CountingExample) =>
        /\ result.err = "none"
        /\ result.value = <<0>>
        /\ result.type = "Boolean"
        /\ get_value(result.new_state, "sum") = <<<<10>>, "Integer">>
        /\ get_value(result.new_state, "i") = <<<<5>>, "Integer">>

\* a loop that ran its body at least twice and then ended
C4_Witness ==
    /\ Done
    /\ program.kind = "While"
    /\ result.err = "none"
    /\ Len(Children(result.log)) >= 10
    /\ Len(result.new_state) > Len(chain) + 1

(***************************************************************************)
(* C5.  Divide of two operands of the same type String, Boolean or Unit    *)
(* raises InterpTypeError whatever the operand values are.                 *)
(***************************************************************************)
\* C5: Divide of two String, two Boolean or two Unit operands raises
\* InterpTypeError, never InterpMathError
C5_DivideNonNumeric ==
    (Done /\ program.kind = "Divide") =>
        LET l == evaluate(program.left, chain, 1)
            r == evaluate(program.right, l.new_state, 1)
        IN (/\ l.err = "none"
            /\ r.err = "none"
            /\ l.type = r.type
            /\ l.type \in {"String", "Boolean", "Unit"})
           => result.err = "InterpTypeError"

(***************************************************************************)
(* C6.  Divide of Integer a by Integer b raises InterpMathError when b is  *)
(* 0 and otherwise returns the floor of a/b with type Integer (7/2 = 3,    *)
(* -7/2 = -4); operands of different types raise InterpTypeError even when *)
(* the right one is zero.                                                  *)
(***************************************************************************)
IsFloorOf(q, a, b) ==
    /\ b > 0 => (b * q <= a /\ a < b * q + b)
    /\ b < 0 => (b * q >= a /\ a > b * q + b)

\* C6: Integer division is MathError on a zero divisor and the floor of the
\* quotient otherwise; a type mismatch is reported before the zero divisor
C6_IntegerDivide ==
    /\ (/\ Done
        /\ program.kind = "Divide"
        /\ program.left.kind = "IntLiteral"
        /\ program.right.kind = "IntLiteral") =>
        LET a == program.left.literal[1]
            b == program.right.literal[1]
        IN IF b = 0
           THEN result.err = "InterpMathError"
           ELSE /\ result.err = "none"
                /\ result.type = "Integer"
                /\ IsFloorOf(result.value[1], a, b)
                /\ result.new_state = chain
    /\ (Done /\ program = Divide(IntLiteral(7), IntLiteral(2))) => result.value = <<3>>
    /\ (Done /\ program = Divide(IntLiteral(-7), IntLiteral(2))) => result.value = <<-4>>
    /\ (Done /\ program.kind = "Divide") =>
        LET l == evaluate(program.left, chain, 1)
            r == evaluate(program.right, l.new_state, 1)
        IN (l.err = "none" /\ r.err = "none" /\ l.type # r.type)
           => result.err = "InterpTypeError"

\* a quotient that floor and truncation round differently
C6_Witness ==
    /\ Done
    /\ program = Divide(IntLiteral(-7), IntLiteral(2))
    /\ result.err = "none"
    /\ result.value = <<-4>>

(***************************************************************************)
(* C7.  Every binary operator evaluates its left operand first, then its   *)
(* right operand in the chain the left one returned, whatever the left     *)
(* value is, and checks the operand types only after both: when the types  *)
(* mismatch the output of both operands is there and InterpTypeError is    *)
(* raised.                                                                 *)
(***************************************************************************)
\* C7: left operand, then right operand in the left one's chain, then the
\* type check
C7_BinaryOrder ==
    (Done /\ program.kind \in BinaryKinds) =>
        LET kids == Children(result.log)
            l == evaluate(program.left, chain, 1)
            r == evaluate(program.right, l.new_state, 1)
        IN /\ kids[1].ev = "call" /\ kids[1].node = program.left /\ kids[1].state = chain
           /\ kids[2].ev = "raise" =>
                /\ Len(kids) = 2
                /\ result.err = kids[2].err
           /\ kids[2].ev = "return" =>
                /\ Len(kids) = 4
                /\ kids[3].ev = "call" /\ kids[3].node = program.right
                /\ kids[3].state = kids[2].state
                /\ Stdout(result.log) = Stdout(l.log) \o Stdout(r.log)
                /\ kids[4].ev = "raise" => result.err = kids[4].err
                /\ (kids[4].ev = "return" /\ kids[2].type # kids[4].type) =>
                      result.err = "InterpTypeError"
                /\ result.err = "none" => result.new_state = kids[4].state

\* And with a false left operand still runs its right operand, whose output
\* is there when the mismatch is reported
C7_Witness ==
    /\ Done
    /\ program = BinaryNode("And", BooleanLiteral(FALSE), PrintNode(StringLiteral(TextALineB)))
    /\ result.err = "InterpTypeError"
    /\ Stdout(result.log) = TextALineB \o <<NEWLINE>>

(***************************************************************************)
(* C8.  Persistence: the chain a call returns is the chain it was given    *)
(* with zero or more new frames in front; from one recursive call or       *)
(* return to the next the chain only grows at its head; an expression      *)
(* built from literals, variable reads and operators returns the chain it  *)
(* was given.                                                              *)
(***************************************************************************)
RECURSIVE IsPure(_)
IsPure(e) ==
    \/ e.kind \in {"Ren", "IntLiteral", "FloatingPointLiteral", "StringLiteral",
                   "BooleanLiteral", "Variable"}
    \/ e.kind \in BinaryKinds /\ IsPure(e.left) /\ IsPure(e.right)
    \/ e.kind = "Not" /\ IsPure(e.expr)

HasState(e) == e.ev \in {"call", "return"}

\* C8: chains only grow at the head; pure expressions return the chain given
C8_Persistence ==
    Done =>
        LET chains == SelectSeq(result.log, HasState)
        IN /\ \A i \in 1..(Len(chains) - 1) : IsSuffix(chains[i].state, chains[i + 1].state)
           /\ result.err = "none" => IsSuffix(chain, result.new_state)
           /\ (result.err = "none" /\ IsPure(program)) => result.new_state = chain

\* a call given a non-empty chain that put two or more frames in front of it
C8_Witness ==
    /\ Done
    /\ result.err = "none"
    /\ chain # EmptyState
    /\ Len(result.new_state) >= Len(chain) + 2
    /\ get_value(chain, "x") # None
    /\ get_value(result.new_state, "x") # get_value(chain, "x")

(***************************************************************************)
(* C9.  Print is transparent and ordered.                                  *)
(***************************************************************************)
IsPrintReturn(e) == e.ev = "return" /\ e.node.kind = "Print"
PrintReturns(log) == SelectSeq(log, IsPrintReturn)

\* the text a Print node that returned (value, type) has to write
LineText(e) == IF e.type = "Unit" THEN TextUnit ELSE PyFormat(e.value, e.type)

RECURSIVE Written(_)
\* the texts of a sequence of returned Print nodes, each ended by a newline
Written(prints) ==
    IF prints = <<>> THEN <<>>
    ELSE LineText(Head(prints)) \o <<NEWLINE>> \o Written(Tail(prints))

\* the lines of a character stream: the pieces its newlines end
NewlineAt(s) == {i \in 1..Len(s) : s[i] = NEWLINE}
NumLines(s) == Cardinality(NewlineAt(s))
LineEnd(s, k) == CHOOSE p \in NewlineAt(s) : Cardinality({q \in NewlineAt(s) : q <= p}) = k
Line(s, k) == SubSeq(s, (IF k = 1 THEN 1 ELSE LineEnd(s, k - 1) + 1), LineEnd(s, k) - 1)

HasNewline(text) == \E i \in 1..Len(text) : text[i] = NEWLINE

PrintTransparent ==
    (Done /\ program.kind = "Print") =>
        LET p == evaluate(program.to_print, chain, 1)
        IN /\ result.err = p.err
           /\ result.value = p.value
           /\ result.type = p.type
           /\ result.new_state = p.new_state

OneLinePerPrint ==
    LET prints == PrintReturns(result.log)
    IN /\ NumLines(stdout) = Len(prints)
       /\ \A k \in 1..Len(prints) : Line(stdout, k) = LineText(prints[k])

\* C9 as claimed: Print(e) returns what e returns, and standard output has
\* exactly one line per Print node evaluated, in evaluation order, the line
\* being "Unit" for a Unit operand and the text of the value otherwise.
C9_PrintAsClaimed ==
    /\ PrintTransparent
    /\ Done => OneLinePerPrint

\* C9 as amended: Print(e) returns what e returns, and standard output is,
\* in evaluation order, one write per Print node evaluated of the text
\* ("Unit" for a Unit operand, the text of the value otherwise) followed by
\* a newline; that is one line per Print node when no text written contains
\* a newline itself.
C9_PrintAmended ==
    /\ PrintTransparent
    /\ Done =>
        LET prints == PrintReturns(result.log)
        IN /\ stdout = Written(prints)
           /\ (\A k \in 1..Len(prints) : ~HasNewline(LineText(prints[k]))) => OneLinePerPrint

\* two Print nodes, one of them of Unit, wrote before the error was raised
C9_Witness ==
    /\ Done
    /\ result.err \in Errors
    /\ Len(PrintReturns(result.log)) >= 2
    /\ \E k \in 1..Len(PrintReturns(result.log)) : PrintReturns(result.log)[k].type = "Unit"
    /\ NumLines(stdout) = Len(PrintReturns(result.log))

(***************************************************************************)
(* C10.  In every chain of a run of run_stimpl, those passed to and those  *)
(* returned by the recursive calls included, all frames of one name carry  *)
(* the same type, and the type lookup finds for a name stays what it was   *)
(* when the name was first bound.                                          *)
(***************************************************************************)
RunNames == {"x", "y", "i", "sum"}

TypeConsistent(c) ==
    \A i \in 1..Len(c) : \A j \in 1..Len(c) :
        c[i].variable_name = c[j].variable_name => c[i].value[2] = c[j].value[2]

\* C10: every chain of a run of run_stimpl is type-consistent and the type of
\* a bound name never changes
C10_TypeConsistency ==
    pc = "run_stimpl" =>
        LET chains == SelectSeq(result.log, HasState)
        IN /\ \A i \in 1..Len(chains) : TypeConsistent(chains[i].state)
           /\ \A i \in 1..(Len(chains) - 1) : \A n \in RunNames :
                 get_value(chains[i].state, n) # None =>
                    /\ get_value(chains[i + 1].state, n) # None
                    /\ get_value(chains[i + 1].state, n)[2] = get_value(chains[i].state, n)[2]
           /\ result.err = "none" => TypeConsistent(result.new_state)

\* a run that bound x, bound it again with the same type, and was refused a
\* binding of another type
C10_Witness ==
    /\ pc = "run_stimpl"
    /\ program = Program(<<Assign(X, IntLiteral(1)), Assign(X, StringLiteral(TextA))>>)
    /\ result.err = "InterpTypeError"

====
